---- MODULE Spec2Model ----
(***************************************************************************)
(* Knowledge-graph builder and retriever of tanishgpt-backend/graph_rag.py *)
(* GraphBuilder.build_graph: lock-free extraction of triples per chunk,    *)
(* then load / fold-in / save of the graph file under a FileLock.          *)
(* GraphRetriever: lock-free load of the graph file and read-only queries. *)
(***************************************************************************)
EXTENDS Integers, Sequences, FiniteSets, TLC

(***************************************************************************)
(* Bounds of the model.                                                    *)
(***************************************************************************)
NumBuilders == 2      \* concurrent build_graph calls (background tasks)
MaxChunks == 2        \* chunks over all build_graph calls of a run
RetrWriters == 1      \* build_graph calls running beside the retriever
LiveChunks == 1       \* chunks over all calls in the runs checked for progress

Builders == 1..NumBuilders
NoHolder == 0

(***************************************************************************)
(* Python strings are sequences of characters; str.strip and str.lower are *)
(* computed character by character.                                        *)
(***************************************************************************)
Whitespace == {" ", "\n", "\t"}

LowerChar(c) ==
    CASE c = "A" -> "a"
      [] c = "B" -> "b"
      [] c = "C" -> "c"
      [] c = "H" -> "h"
      [] c = "N" -> "n"
      [] c = "R" -> "r"
      [] c = "S" -> "s"
      [] OTHER -> c

Lower(s) == [i \in 1..Len(s) |-> LowerChar(s[i])]

RECURSIVE LStrip(_)
LStrip(s) ==
    IF s # <<>> /\ Head(s) \in Whitespace THEN LStrip(Tail(s)) ELSE s

RECURSIVE RStrip(_)
RStrip(s) ==
    IF s # <<>> /\ s[Len(s)] \in Whitespace
    THEN RStrip(SubSeq(s, 1, Len(s) - 1))
    ELSE s

Strip(s) == RStrip(LStrip(s))

\* Normalize that forgets to lower-case.
Normalize_NoLower(s) == Strip(s)

\* t.get(key, "").strip().lower()
Normalize(s) == Lower(Strip(s))

(***************************************************************************)
(* Sequence helpers.                                                       *)
(***************************************************************************)
InSeq(x, s) == \E i \in 1..Len(s) : s[i] = x

IndexOf(x, s) == CHOOSE i \in 1..Len(s) : s[i] = x /\ \A j \in 1..(i - 1) : s[j] # x

NoDup(s) == \A i, j \in 1..Len(s) : i # j => s[i] # s[j]

(***************************************************************************)
(* networkx.Graph: insertion-ordered nodes, insertion-ordered adjacency,   *)
(* one attribute dictionary per undirected edge (here its "relations").    *)
(***************************************************************************)
EmptyGraph == [nodes |-> <<>>, adj |-> <<>>, rel |-> <<>>]

NodeSet(g) == {g.nodes[i] : i \in 1..Len(g.nodes)}

HasNode(g, n) == n \in NodeSet(g)

HasEdge(g, u, v) == {u, v} \in DOMAIN g.rel

EdgeSet(g) == DOMAIN g.rel

Relations(g, u, v) == g.rel[{u, v}]

add_node(g, n) ==
    IF HasNode(g, n) THEN g
    ELSE [g EXCEPT !.nodes = Append(g.nodes, n),
                   !.adj = (n :> <<>>) @@ g.adj]

\* The adjacency and attribute update of add_edge once both endpoints exist.
link(g, u, v, rels) ==
    LET a1 == IF InSeq(v, g.adj[u]) THEN g.adj
              ELSE [g.adj EXCEPT ![u] = Append(@, v)]
        a2 == IF InSeq(u, a1[v]) THEN a1
              ELSE [a1 EXCEPT ![v] = Append(@, u)]
    IN  [g EXCEPT !.adj = a2,
                  !.rel = ({u, v} :> rels) @@ g.rel]

\* Graph.add_edge(u, v, relations=rels): creates missing endpoints, links
\* them, and updates the edge's attribute dictionary.  (x \in {e} names the
\* value of e, which is computed once, as a Python statement does.)
add_edge(g, u, v, rels) ==
    CHOOSE r \in {link(g1, u, v, rels) :
                     g1 \in {add_node(add_node(g, u), v)}} : TRUE

(***************************************************************************)
(* Graph.edges(data=True) of an undirected graph: nodes in insertion order,*)
(* each node's neighbours in adjacency order, an edge reported from the    *)
(* endpoint that comes first in node order.                                *)
(***************************************************************************)
RECURSIVE EdgeListFrom(_, _)
EdgeListFrom(g, i) ==
    IF i > Len(g.nodes) THEN <<>>
    ELSE LET n == g.nodes[i]
             own == SelectSeq(g.adj[n], LAMBDA m : IndexOf(m, g.nodes) >= i)
         IN  [k \in 1..Len(own) |->
                 [source |-> n, target |-> own[k],
                  relations |-> g.rel[{n, own[k]}]]]
             \o EdgeListFrom(g, i + 1)

\* nx.node_link_data(graph): the JSON document written to the graph file
\* (json.dumps / json.loads keep strings, lists and objects as they are).
node_link_data(g) ==
    [nodes |-> [i \in 1..Len(g.nodes) |-> [id |-> g.nodes[i]]],
     links |-> EdgeListFrom(g, 1)]

RECURSIVE AddNodesFrom(_, _)
AddNodesFrom(g, ns) ==
    IF ns = <<>> THEN g
    ELSE CHOOSE r \in {AddNodesFrom(h, Tail(ns)) :
                           h \in {add_node(g, Head(ns).id)}} : TRUE

RECURSIVE AddLinksFrom(_, _)
AddLinksFrom(g, ls) ==
    IF ls = <<>> THEN g
    ELSE CHOOSE r \in {AddLinksFrom(h, Tail(ls)) :
                           h \in {add_edge(g, Head(ls).source, Head(ls).target,
                                           Head(ls).relations)}} : TRUE

\* nx.node_link_graph(data)
node_link_graph(d) == AddLinksFrom(AddNodesFrom(EmptyGraph, d.nodes), d.links)

(***************************************************************************)
(* The graph file: absent, unparseable, truncated by a write in progress,  *)
(* or holding a complete node-link document.                               *)
(***************************************************************************)
NoData == [nodes |-> <<>>, links |-> <<>>]

FileAbsent == [st |-> "absent", data |-> NoData]
FileCorrupt == [st |-> "corrupt", data |-> NoData]
FilePartial == [st |-> "partial", data |-> NoData]
FileOk(d) == [st |-> "ok", data |-> d]

Parseable(f) == f.st = "ok"

(***************************************************************************)
(* Values the language model's answer can decode to.  A field of a triple  *)
(* object is a string, is missing, or is a non-string JSON value; an item  *)
(* of the "triples" list is an object or some other JSON value.            *)
(***************************************************************************)
FStr(s) == [k |-> "str", v |-> s]
FMissing == [k |-> "missing", v |-> <<>>]
FNonStr == [k |-> "nonstr", v |-> <<>>]

Dict(s, p, o) == [t |-> "dict", subject |-> s, predicate |-> p, object |-> o]
NonDict == [t |-> "other", subject |-> FMissing, predicate |-> FMissing,
            object |-> FMissing]

T_ab == Dict(FStr(<<"a">>), FStr(<<"r">>), FStr(<<"b">>))
T_BA == Dict(FStr(<<" ", "B">>), FStr(<<"S", " ">>), FStr(<<"A">>))
T_bC == Dict(FStr(<<"b">>), FStr(<<"r">>), FStr(<<"C", " ">>))
T_blank == Dict(FStr(<<" ">>), FStr(<<"r">>), FStr(<<"b">>))
T_nopred == Dict(FStr(<<"a">>), FMissing, FStr(<<"c">>))
T_null == Dict(FStr(<<"c">>), FStr(<<"r">>), FNonStr)

TMissing == [k |-> "missing", v |-> <<>>]
TNonIter == [k |-> "noniter", v |-> <<>>]
TList(items) == [k |-> "list", v |-> items]

\* What the chat-completions request of call_llm_json can come back with.
Responses ==
    { [kind |-> "http_error", triples |-> TMissing],
      [kind |-> "not_json", triples |-> TMissing],
      [kind |-> "json_other", triples |-> TMissing],
      [kind |-> "json_object", triples |-> TMissing],
      [kind |-> "json_object", triples |-> TNonIter],
      [kind |-> "json_object", triples |-> TList(<<T_ab>>)],
      [kind |-> "json_object",
       triples |-> TList(<<T_ab, T_BA, T_blank, T_nopred, T_bC>>)],
      [kind |-> "json_object",
       triples |-> TList(<<T_ab, T_null, NonDict>>)] }

\* call_llm_json: every exception (request, status, json) gives {}; a JSON
\* text without braces that parses (array, number, string) is returned as is.
call_llm_json(r) ==
    CASE r.kind \in {"http_error", "not_json"} ->
             [isdict |-> TRUE, triples |-> TMissing]
      [] r.kind = "json_other" -> [isdict |-> FALSE, triples |-> TMissing]
      [] OTHER -> [isdict |-> TRUE, triples |-> r.triples]

\* response.get("triples", []) raises AttributeError unless response is a dict
ExtractRaises(r) == ~call_llm_json(r).isdict

extract_entities_relations(r) ==
    LET resp == call_llm_json(r)
    IN  IF resp.triples.k = "missing" THEN TList(<<>>) ELSE resp.triples

\* all_triples.extend(triples) raises TypeError on a non-iterable
ExtendRaises(r) == extract_entities_relations(r).k = "noniter"

(***************************************************************************)
(* The merge loop of build_graph.                                          *)
(***************************************************************************)
Get(f) == IF f.k = "missing" THEN <<>> ELSE f.v

\* t.get(...) needs a dict, .strip() needs a string
ItemRaises(t) ==
    \/ t.t # "dict"
    \/ t.subject.k = "nonstr"
    \/ t.object.k = "nonstr"
    \/ t.predicate.k = "nonstr"

FoldRaises(ts) == \E i \in 1..Len(ts) : ItemRaises(ts[i])

\* append_relation without the membership test.
append_relation_always(g, u, v, pred) ==
    [g EXCEPT !.rel[{u, v}] = Append(Relations(g, u, v), pred)]


append_relation(g, u, v, pred) ==
    LET existing_rels == Relations(g, u, v)
    IN  IF InSeq(pred, existing_rels) THEN g
        ELSE [g EXCEPT !.rel[{u, v}] = Append(existing_rels, pred)]

\* merge_triple that always (re)creates the edge with the new label only.
merge_triple_overwrite(g, t) ==
    CHOOSE r \in
        { IF subj # <<>> /\ obj # <<>> /\ pred # <<>>
          THEN add_edge(g, subj, obj, <<pred>>)
          ELSE g :
          subj \in {Normalize(Get(t.subject))},
          obj \in {Normalize(Get(t.object))},
          pred \in {Normalize(Get(t.predicate))} } : TRUE

merge_triple(g, t) ==
    CHOOSE r \in
        { IF subj # <<>> /\ obj # <<>> /\ pred # <<>>
          THEN CHOOSE r2 \in
                   { IF HasEdge(g2, subj, obj)
                     THEN append_relation(g2, subj, obj, pred)
                     ELSE add_edge(g2, subj, obj, <<pred>>) :
                     g2 \in {add_node(add_node(g, subj), obj)} } : TRUE
          ELSE g :
          subj \in {Normalize(Get(t.subject))},
          obj \in {Normalize(Get(t.object))},
          pred \in {Normalize(Get(t.predicate))} } : TRUE

\* for t in all_triples: the graph after each triple is computed once and
\* handed to the next iteration
RECURSIVE merge_triples(_, _)
merge_triples(g, ts) ==
    IF ts = <<>> THEN g
    ELSE CHOOSE r \in {merge_triples(h, Tail(ts)) :
                           h \in {merge_triple(g, Head(ts))}} : TRUE

\* graph_path.exists() / node_link_graph(json.loads(read_text())) with the
\* except branch: an absent or unparseable file gives nx.Graph()
load_graph(f) == IF Parseable(f) THEN node_link_graph(f.data) ELSE EmptyGraph


(***************************************************************************)
(* GraphRetriever.get_relevant_subgraph_text.                              *)
(***************************************************************************)
TopK == 15            \* nodes kept after ranking
MaxPathNodes == 4     \* longest multi-hop chain rendered, in nodes
MinWordLen == 3       \* fallback keeps query words longer than this

Neighbors(g, n) == {g.adj[n][i] : i \in 1..Len(g.adj[n])}

\* nx.single_source_shortest_path_length(graph, n, cutoff=d).keys()
RECURSIVE Within(_, _, _)
Within(g, n, d) ==
    IF d = 0 THEN {n}
    ELSE CHOOSE r \in {W \cup UNION {Neighbors(g, m) : m \in W} :
                           W \in {Within(g, n, d - 1)}} : TRUE

Connected(g, u, v) == v \in Within(g, u, Len(g.nodes))

Distance(g, u, v) ==
    CHOOSE d \in 0..Len(g.nodes) :
        /\ v \in Within(g, u, d)
        /\ \A e \in 0..(d - 1) : v \notin Within(g, u, e)

IsPath(g, path) ==
    \A i \in 1..(Len(path) - 1) : path[i + 1] \in Neighbors(g, path[i])

\* nx.shortest_path(graph, source=u, target=v): a path of Distance + 1 nodes
shortest_path(g, u, v) ==
    CHOOSE path \in [1..(Distance(g, u, v) + 1) -> NodeSet(g)] :
        path[1] = u /\ path[Len(path)] = v /\ IsPath(g, path)

\* What call_llm_json returned for the entity prompt.  ill = "none": an
\* object whose "entities", if present, is a list of strings.  Otherwise
\* "not_object" (a JSON array, number or string: it has no .get),
\* "null_list" ({"entities": null}: not iterable) or "non_string" (an item
\* without .lower()); each of them raises in lines 164-166.
QueryRaises(q) == q.ill # "none"

\* query_entities: the model's list lower-cased and stripped, or, when that
\* is empty, the lower-cased query words longer than 3 characters
resolve_entities(q) ==
    LET listed == [i \in 1..Len(q.entities) |-> Strip(Lower(q.entities[i]))]
        long == SelectSeq(q.words, LAMBDA w : Len(w) > MinWordLen)
    IN  IF listed # <<>> THEN listed
        ELSE [i \in 1..Len(long) |-> Lower(long[i])]

found_nodes(g, q) == SelectSeq(resolve_entities(q), LAMBDA n : HasNode(g, n))

Pairs(fs) == {ij \in (1..Len(fs)) \X (1..Len(fs)) : ij[1] < ij[2]}

\* AcceptedPair that lets a chain of one more node through.
AcceptedPair_Longer(g, fs, ij) ==
    /\ Connected(g, fs[ij[1]], fs[ij[2]])
    /\ Distance(g, fs[ij[1]], fs[ij[2]]) + 1 <= MaxPathNodes + 1

AcceptedPair(g, fs, ij) ==
    /\ Connected(g, fs[ij[1]], fs[ij[2]])
    /\ Distance(g, fs[ij[1]], fs[ij[2]]) + 1 <= MaxPathNodes

PathNodes(g, fs) ==
    UNION { LET path == shortest_path(g, fs[ij[1]], fs[ij[2]])
            IN  {path[k] : k \in 1..Len(path)} :
            ij \in {x \in Pairs(fs) : AcceptedPair(g, fs, x)} }

\* subgraph_nodes after the multi-hop and the neighbourhood steps
subgraph_nodes(g, fs, depth) ==
    {fs[i] : i \in 1..Len(fs)}
        \cup PathNodes(g, fs)
        \cup UNION {Within(g, fs[i], depth) : i \in 1..Len(fs)}

\* top_nodes that keeps every node of the working set.
TopChoices_All(ns) == {ns}

\* the candidates for top_nodes: the ranking keeps at most TopK nodes
TopChoices(ns) ==
    IF Cardinality(ns) <= TopK THEN {ns}
    ELSE {t \in SUBSET ns : Cardinality(t) = TopK}

\* the edges of final_subgraph, one rendered line each
RenderedEdges(g, top) == {e \in EdgeSet(g) : e \subseteq top}

\* sep.join(strs)
RECURSIVE Join(_, _)
Join(strs, sep) ==
    IF strs = <<>> THEN <<>>
    ELSE IF Len(strs) = 1 THEN strs[1]
    ELSE strs[1] \o sep \o Join(Tail(strs), sep)

\* f" --[{rel_str}]--> "
Arrow(rel_str) ==
    <<" ", "-", "-", "[">> \o rel_str \o <<"]", "-", "-", ">", " ">>

\* path_str of the multi-hop section: the nodes of the path in order, each
\* edge shown by its relations joined with "|"
RECURSIVE path_str(_, _)
path_str(g, path) ==
    IF Len(path) = 1 THEN path[1]
    ELSE path_str(g, SubSeq(path, 1, Len(path) - 1))
             \o Arrow(Join(Relations(g, path[Len(path) - 1], path[Len(path)]),
                           <<"|">>))
             \o path[Len(path)]

\* list(combinations(found_nodes, 2)), as index pairs from <<i, j>> on
RECURSIVE combinations(_, _, _)
combinations(n, i, j) ==
    IF i >= n THEN <<>>
    ELSE IF j > n THEN combinations(n, i + 1, i + 2)
    ELSE <<<<i, j>>>> \o combinations(n, i, j + 1)

\* the lines of the multi-hop section below its header: one per pair whose
\* shortest path exists and has at most MaxPathNodes nodes
multi_hop_lines(g, fs) ==
    LET acc == SelectSeq(combinations(Len(fs), 1, 2),
                         LAMBDA ij : AcceptedPair(g, fs, ij))
    IN  [k \in 1..Len(acc) |->
            path_str(g, shortest_path(g, fs[acc[k][1]], fs[acc[k][2]]))]

\* the lines of the key-concepts section below its header: one line per
\* edge of final_subgraph, f"{u} --[{rels}]--> {v}" with ", ".join
key_lines(g, top) ==
    LET es == SelectSeq(EdgeListFrom(g, 1),
                        LAMBDA e : {e.source, e.target} \subseteq top)
    IN  [k \in 1..Len(es) |->
            es[k].source \o Arrow(Join(es[k].relations, <<",", " ">>))
                \o es[k].target]

\* Queries of the chat turn: the entity list the model returns and the
\* whitespace-separated words of the query.
MaxDepth == 2

Queries ==
    { [ill |-> "none", entities |-> <<>>,
       words |-> <<<<"w", "h", "a", "t">>, <<"a">>>>],
      [ill |-> "none", entities |-> <<<<"A", " ">>>>, words |-> <<>>],
      [ill |-> "none", entities |-> <<<<"a">>, <<"c">>>>, words |-> <<>>],
      [ill |-> "none", entities |-> <<<<"c">>, <<"x">>>>, words |-> <<>>],
      [ill |-> "none", entities |-> <<<<"a">>, <<"d">>, <<"e">>, <<"x">>>>,
       words |-> <<>>],
      [ill |-> "none", entities |-> <<<<"H", "u", "b", "s">>, <<"q">>>>,
       words |-> <<>>],
      [ill |-> "none", entities |-> <<>>,
       words |-> <<<<"t", "h", "e">>, <<"H", "u", "b", "s">>>>],
      [ill |-> "not_object", entities |-> <<>>, words |-> <<<<"a">>>>],
      [ill |-> "null_list", entities |-> <<>>, words |-> <<<<"a">>>>],
      [ill |-> "non_string", entities |-> <<<<"a">>>>, words |-> <<>>] }

NoQuery == [ill |-> "none", entities |-> <<>>, words |-> <<>>]

(***************************************************************************)
(* document_processor: the source extractors.  Offsets are Python's: the   *)
(* slice text[a:b] is SubSeq(text, a + 1, b).                              *)
(***************************************************************************)
Slice(text, a, b) == SubSeq(text, a + 1, b)

Min(S) == CHOOSE x \in S : \A y \in S : x <= y

\* text.find(c, start): the lowest offset >= start where c occurs, else -1
find(text, c, start) ==
    CHOOSE r \in
        {IF hits = {} THEN -1 ELSE Min(hits) :
            hits \in {{i \in start..(Len(text) - Len(c)) :
                          Slice(text, i, i + Len(c)) = c}}} : TRUE

ParagraphBreak == <<"\n", "\n">>

\* text.split('\n\n')
RECURSIVE split(_)
split(text) ==
    CHOOSE r \in
        {IF i = -1 THEN <<text>>
         ELSE <<Slice(text, 0, i)>>
                  \o split(Slice(text, i + Len(ParagraphBreak), Len(text))) :
            i \in {find(text, ParagraphBreak, 0)}} : TRUE

NoText == [full_text |-> <<>>, source_map |-> <<>>, paragraph_counter |-> 0]

\* Body of the paragraph loops that counts blank paragraphs as well.
keep_paragraph_counting_blanks(acc, para, page) ==
    IF Strip(para) = <<>>
    THEN [acc EXCEPT !.paragraph_counter = @ + 1]
    ELSE CHOOSE r \in
             {[full_text |-> sep \o para,
               source_map |-> Append(acc.source_map,
                                 <<Len(sep), Len(sep) + Len(para), page,
                                   acc.paragraph_counter>>),
               paragraph_counter |-> acc.paragraph_counter + 1] :
                 sep \in {IF acc.full_text # <<>>
                          THEN acc.full_text \o ParagraphBreak
                          ELSE acc.full_text}} : TRUE

\* The body of the paragraph loops: a blank paragraph is skipped; a kept
\* one follows a blank-line separator (none before the first) and gets the
\* span (start_idx, end_idx, page, paragraph_counter).
keep_paragraph(acc, para, page) ==
    IF Strip(para) = <<>> THEN acc
    ELSE CHOOSE r \in
             {[full_text |-> sep \o para,
               source_map |-> Append(acc.source_map,
                                 <<Len(sep), Len(sep) + Len(para), page,
                                   acc.paragraph_counter>>),
               paragraph_counter |-> acc.paragraph_counter + 1] :
                 sep \in {IF acc.full_text # <<>>
                          THEN acc.full_text \o ParagraphBreak
                          ELSE acc.full_text}} : TRUE

RECURSIVE keep_paragraphs(_, _, _)
keep_paragraphs(acc, paras, page) ==
    IF paras = <<>> THEN acc
    ELSE CHOOSE r \in
             {keep_paragraphs(a, Tail(paras), page) :
                 a \in {keep_paragraph(acc, Head(paras), page)}} : TRUE

\* for i, page in enumerate(reader.pages): a page without text is skipped,
\* the others are split into paragraphs; the page number is i + 1
RECURSIVE keep_pages(_, _, _)
keep_pages(acc, pages, i) ==
    IF i >= Len(pages) THEN acc
    ELSE CHOOSE r \in
             {keep_pages(a, pages, i + 1) :
                 a \in {IF Strip(pages[i + 1]) = <<>> THEN acc
                        ELSE keep_paragraphs(acc, split(pages[i + 1]),
                                             i + 1)}} : TRUE

\* content: the pages' texts of a pdf, the paragraphs' texts of a docx,
\* the one text of any other file
extract_text_from_pdf(content) == keep_pages(NoText, content, 0)

extract_text_from_docx(content) == keep_paragraphs(NoText, content, 1)

extract_text_from_txt(content) == keep_paragraphs(NoText, split(content[1]), 1)

\* the extractor that process_document_background picks by suffix
extract_text(doc) ==
    IF doc.ext = "pdf" THEN extract_text_from_pdf(doc.content)
    ELSE IF doc.ext = "docx" THEN extract_text_from_docx(doc.content)
    ELSE extract_text_from_txt(doc.content)

(***************************************************************************)
(* document_processor: chapters and chunk annotation.                      *)
(***************************************************************************)
Digits == {"0", "1", "2", "3", "4", "5", "6", "7", "8", "9"}

DigitChars == <<"0", "1", "2", "3", "4", "5", "6", "7", "8", "9">>

Keywords ==
    {<<"c", "h", "a", "p", "t", "e", "r">>, <<"s", "e", "c", "t", "i", "o", "n">>}

KeywordLen == 7

\* the offset of the first character at or after i that is not in S, or
\* len(text)
RECURSIVE SkipWhile(_, _, _)
SkipWhile(text, i, S) ==
    IF i < Len(text) /\ text[i + 1] \in S THEN SkipWhile(text, i + 1, S)
    ELSE i

\* (?:chapter|section)\s+\d+ matches at offset i, case ignored
IsHeading(text, i) ==
    /\ i + KeywordLen <= Len(text)
    /\ Lower(Slice(text, i, i + KeywordLen)) \in Keywords
    /\ \E j \in {SkipWhile(text, i + KeywordLen, Whitespace)} :
          /\ j > i + KeywordLen
          /\ j < Len(text)
          /\ text[j + 1] \in Digits

\* where group 1 of a heading at offset i ends: .*? runs to the end of the
\* line
HeadingEnd(text, i) ==
    SkipWhile(text,
              SkipWhile(text, SkipWhile(text, i + KeywordLen, Whitespace),
                        Digits),
              {text[k] : k \in 1..Len(text)} \ {"\n"})

\* CHAPTER_RE tried at offset pos: 0 if it does not match there, 1 if it
\* matches through ^ (group 1 starts at pos), 2 through \n (at pos + 1)
MatchAt(text, pos) ==
    IF (pos = 0 \/ text[pos] = "\n") /\ IsHeading(text, pos) THEN 1
    ELSE IF pos < Len(text) /\ text[pos + 1] = "\n" /\ IsHeading(text, pos + 1)
    THEN 2
    ELSE 0

\* CHAPTER_RE.finditer(full_text) from offset pos on: (m.start(), title) of
\* each match; the search goes on after the newline that ends the match
RECURSIVE finditer(_, _)
finditer(text, pos) ==
    IF pos > Len(text) THEN <<>>
    ELSE CHOOSE r \in
             {IF how = 0 THEN finditer(text, pos + 1)
              ELSE CHOOSE r2 \in
                       {<<<<pos, Strip(Slice(text, pos + how - 1, e))>>>>
                            \o finditer(text, IF e < Len(text) THEN e + 1
                                               ELSE e) :
                           e \in {HeadingEnd(text, pos + how - 1)}} : TRUE :
                 how \in {MatchAt(text, pos)}} : TRUE

Introduction ==
    <<"I", "n", "t", "r", "o", "d", "u", "c", "t", "i", "o", "n">>

detect_chapters(full_text) ==
    CHOOSE r \in
        {IF chapters = <<>> THEN <<<<0, Introduction>>>> ELSE chapters :
            chapters \in {finditer(full_text, 0)}} : TRUE

\* str(n) of a non-negative integer
RECURSIVE str(_)
str(n) ==
    IF n < 10 THEN <<DigitChars[n + 1]>>
    ELSE str(n \div 10) \o <<DigitChars[(n % 10) + 1]>>

\* sorted(S) of a set of integers
RECURSIVE sorted(_)
sorted(S) ==
    IF S = {} THEN <<>> ELSE <<Min(S)>> \o sorted(S \ {Min(S)})

Unknown == <<"U", "n", "k", "n", "o", "w", "n">>

\* The overlap test that only takes a span which holds the whole chunk.
Overlaps_Inside(start_pos, end_pos, span) ==
    span[1] <= start_pos /\ end_pos <= span[2]

\* max(start_pos, p_start) < min(end_pos, p_end)
Overlaps(start_pos, end_pos, span) ==
    (IF start_pos > span[1] THEN start_pos ELSE span[1])
        < (IF end_pos < span[2] THEN end_pos ELSE span[2])

\* The start offset searched without the sliding lower bound.
recover_start_unbounded(text, c, last_pos) == find(text, c, 0)

\* start_pos: text.find(c, last_pos), and text.find(c) if that is -1
recover_start(text, c, last_pos) ==
    CHOOSE r \in
        {IF at = -1 THEN find(text, c, 0) ELSE at :
            at \in {find(text, c, last_pos)}} : TRUE

\* The chapter pointer looked up afresh for every chunk.
RECURSIVE advance_chapter_afresh(_, _, _)
advance_chapter_afresh(chapters, idx, start_pos) ==
    IF idx > 0 /\ start_pos < chapters[idx + 1][1]
    THEN advance_chapter_afresh(chapters, idx - 1, start_pos)
    ELSE IF idx + 1 < Len(chapters) /\ start_pos >= chapters[idx + 2][1]
    THEN advance_chapter_afresh(chapters, idx + 1, start_pos)
    ELSE idx

\* while current_chapter_idx + 1 < len(chapters) and start_pos >=
\* chapters[current_chapter_idx + 1][0]: current_chapter_idx += 1
RECURSIVE advance_chapter(_, _, _)
advance_chapter(chapters, idx, start_pos) ==
    IF idx + 1 < Len(chapters) /\ start_pos >= chapters[idx + 2][1]
    THEN advance_chapter(chapters, idx + 1, start_pos)
    ELSE idx

\* One iteration of the loop of chunk_with_metadata for the chunk c: the
\* entry appended to annotated (the field "type", which depends on the
\* chunk's text alone, is left out; "chapter" records current_chapter_idx).
annotate(text, source_map, chapters, c, last_pos, idx) ==
    CHOOSE r \in
        {[text |-> c,
          metadata |->
              [page |-> IF hit = {} THEN 1
                        ELSE Min({source_map[k][3] : k \in hit}),
               start |-> start_pos,
               end |-> start_pos + Len(c),
               paragraph_index |->
                   IF hit = {} THEN 0
                   ELSE Min({source_map[k][4] : k \in hit}),
               chapter_title |-> chapters[advance_chapter(chapters, idx,
                                                          start_pos) + 1][2],
               page_label |->
                   IF hit = {} THEN Unknown
                   ELSE Join([n \in 1..Cardinality({source_map[k][3] :
                                                        k \in hit}) |->
                                 str(sorted({source_map[k][3] :
                                                k \in hit})[n])],
                             <<",", " ">>)],
          chapter |-> advance_chapter(chapters, idx, start_pos)] :
            start_pos \in {recover_start(text, c, last_pos)},
            hit \in {{k \in 1..Len(source_map) :
                         Overlaps(recover_start(text, c, last_pos),
                                  recover_start(text, c, last_pos) + Len(c),
                                  source_map[k])}}} : TRUE

(***************************************************************************)
(* State.                                                                  *)
(***************************************************************************)
VARIABLES
    file,         \* the graph file (knowledge_graph.json)
    lock,         \* holder of FileLock(knowledge_graph.lock), NoHolder if free
    pc,           \* position of each build_graph call
    todo,         \* chunks the extraction loop of each call has yet to process
    all_triples,  \* all_triples of each call
    graph,        \* the graph each call holds in memory inside the lock
    src,          \* what each call found when it loaded the file
    persisted,    \* the last complete document the file held
    writer,       \* the call whose write completed last, NoHolder if none
    rpc,          \* position of the chat turn using GraphRetriever
    rgraph,       \* GraphRetriever.graph
    rsaw,         \* what GraphRetriever.__init__ found in the file
    rsnap,        \* the last complete document when the retriever loaded
    rout,         \* result of get_relevant_subgraph_text
    din,          \* the document handed to a source extractor
    dpc,          \* position of the extractor / chunk_with_metadata call
    extracted,    \* what the extractor returned: full_text and source_map
    text,         \* chunk_with_metadata: its argument text
    source_map,   \* chunk_with_metadata: its argument source_map
    chunk_overlap,  \* chunk_with_metadata: its argument chunk_overlap
    chapters,     \* chunk_with_metadata: detect_chapters(text)
    chunks,       \* chunk_with_metadata: splitter.split_text(text)
    annotated,    \* chunk_with_metadata: the list it returns
    last_pos,     \* chunk_with_metadata: the sliding lower bound
    current_chapter_idx,  \* chunk_with_metadata: the chapter pointer
    task          \* the background ingestion task of each upload

bvars == <<pc, todo, all_triples, graph, src>>
fvars == <<file, lock, persisted, writer>>
rvars == <<rpc, rgraph, rsaw, rsnap, rout>>
dvars == <<din, dpc, extracted, text, source_map, chunk_overlap, chapters,
           chunks, annotated, last_pos, current_chapter_idx>>
vars == <<file, lock, pc, todo, all_triples, graph, src, persisted,
          writer, rpc, rgraph, rsaw, rsnap, rout, din, dpc, extracted, text,
          source_map, chunk_overlap, chapters, chunks, annotated, last_pos,
          current_chapter_idx, task>>

InCritical == {"load", "fold", "save", "write"}
Finished == {"done", "raised"}

\* the result of get_relevant_subgraph_text: whether it is "", and
\* otherwise the lines of its two sections; query, depth, found, nodes and
\* edges record what the call was given and what it computed on the way
NoOutput ==
    [empty |-> TRUE, query |-> NoQuery, depth |-> 0, found |-> <<>>,
     nodes |-> {}, top |-> {}, edges |-> {}, chains |-> <<>>, keys |-> <<>>]

\* The file a run starts with: none, one that does not parse, or the
\* snapshot an earlier ingestion left.
Earlier == node_link_data(merge_triples(EmptyGraph, <<T_bC>>))

InitFiles == {FileAbsent, FileCorrupt, FileOk(Earlier)}

\* chunks of all calls together, for the chunk lists cs of the calls
RECURSIVE TotalChunks(_, _)
TotalChunks(cs, n) == IF n = 0 THEN 0 ELSE cs[n] + TotalChunks(cs, n - 1)

\* the lengths of the chunk lists the calls are given
ChunkLists(max) ==
    {cs \in [Builders -> 0..max] : TotalChunks(cs, NumBuilders) <= max}

MaxDocs == 2          \* uploads of a run
MaxSplits == 2        \* chunks the splitter returns for a text
ChunkSize == 12       \* chunk_size given to chunk_with_metadata

Docs == 1..MaxDocs

NoDoc == [ext |-> "txt", readable |-> FALSE, content |-> <<>>]

NoTask == [st |-> "none", ext |-> "txt", readable |-> FALSE]

\* no extractor or chunk_with_metadata call is under way
DocOff ==
    /\ din = NoDoc
    /\ dpc = "off"
    /\ extracted = [full_text |-> <<>>, source_map |-> <<>>]
    /\ text = <<>>
    /\ source_map = <<>>
    /\ chunk_overlap = 0
    /\ chapters = <<>>
    /\ chunks = <<>>
    /\ annotated = <<>>
    /\ last_pos = 0
    /\ current_chapter_idx = 0

\* nothing was uploaded
TaskOff == task = [d \in Docs |-> NoTask]

InitCommon ==
    /\ DocOff
    /\ TaskOff
    /\ file \in InitFiles
    /\ lock = NoHolder
    /\ todo \in ChunkLists(MaxChunks)
    /\ all_triples = [p \in Builders |-> <<>>]
    /\ graph = [p \in Builders |-> EmptyGraph]
    /\ src = [p \in Builders |-> "none"]
    /\ persisted = file.data
    /\ writer = NoHolder
    /\ rgraph = EmptyGraph
    /\ rsaw = "none"
    /\ rsnap = NoData
    /\ rout = NoOutput

\* NumBuilders background tasks call build_graph; no chat turn runs.
Init ==
    /\ InitCommon
    /\ pc = [p \in Builders |-> "extract"]
    /\ rpc = "off"

(***************************************************************************)
(* build_graph, one action per step of a call p.                           *)
(***************************************************************************)
\* One iteration of the extraction loop: one request to the language model.
Extract(p) ==
    /\ pc[p] = "extract"
    /\ todo[p] > 0
    /\ \E r \in Responses :
          IF ExtractRaises(r) \/ ExtendRaises(r)
          THEN /\ pc' = [pc EXCEPT ![p] = "raised"]
               /\ UNCHANGED <<todo, all_triples>>
          ELSE /\ all_triples' = [all_triples EXCEPT
                       ![p] = @ \o extract_entities_relations(r).v]
               /\ todo' = [todo EXCEPT ![p] = @ - 1]
               /\ pc' = pc
    /\ UNCHANGED <<graph, src>>
    /\ UNCHANGED fvars
    /\ UNCHANGED rvars
    /\ UNCHANGED <<dvars, task>>

\* The loop is over: lock_path is computed and the call asks for the lock.
ExtractDone(p) ==
    /\ pc[p] = "extract"
    /\ todo[p] = 0
    /\ pc' = [pc EXCEPT ![p] = "wait"]
    /\ UNCHANGED <<todo, all_triples, graph, src>>
    /\ UNCHANGED fvars
    /\ UNCHANGED rvars
    /\ UNCHANGED <<dvars, task>>

\* Acquire without waiting for the lock to be free.
Acquire_NoWait(p) ==
    /\ pc[p] = "wait"
    /\ lock' = p
    /\ pc' = [pc EXCEPT ![p] = "load"]
    /\ UNCHANGED <<todo, all_triples, graph, src>>
    /\ UNCHANGED <<file, persisted, writer>>
    /\ UNCHANGED rvars
    /\ UNCHANGED <<dvars, task>>

\* with FileLock(lock_path): entered once no other call holds the lock.
Acquire(p) ==
    /\ pc[p] = "wait"
    /\ lock = NoHolder
    /\ lock' = p
    /\ pc' = [pc EXCEPT ![p] = "load"]
    /\ UNCHANGED <<todo, all_triples, graph, src>>
    /\ UNCHANGED <<file, persisted, writer>>
    /\ UNCHANGED rvars
    /\ UNCHANGED <<dvars, task>>

\* Load latest state.
Load(p) ==
    /\ pc[p] = "load"
    /\ graph' = [graph EXCEPT ![p] = load_graph(file)]
    /\ src' = [src EXCEPT ![p] = file.st]
    /\ pc' = [pc EXCEPT ![p] = "fold"]
    /\ UNCHANGED <<todo, all_triples>>
    /\ UNCHANGED fvars
    /\ UNCHANGED rvars
    /\ UNCHANGED <<dvars, task>>

\* Fold whose exception leaves the lock held.
Fold_KeepLock(p) ==
    /\ pc[p] = "fold"
    /\ \/ /\ FoldRaises(all_triples[p])
          /\ pc' = [pc EXCEPT ![p] = "raised"]
          /\ graph' = [graph EXCEPT ![p] = EmptyGraph]
       \/ /\ ~FoldRaises(all_triples[p])
          /\ graph' = [graph EXCEPT
                 ![p] = merge_triples(graph[p], all_triples[p])]
          /\ pc' = [pc EXCEPT ![p] = "save"]
    /\ lock' = lock
    /\ UNCHANGED <<todo, all_triples, src>>
    /\ UNCHANGED <<file, persisted, writer>>
    /\ UNCHANGED rvars
    /\ UNCHANGED <<dvars, task>>

\* Merge new triples; an exception leaves the with block, which releases
\* the lock, and escapes build_graph.
Fold(p) ==
    /\ pc[p] = "fold"
    /\ \/ /\ FoldRaises(all_triples[p])
          /\ pc' = [pc EXCEPT ![p] = "raised"]
          /\ lock' = NoHolder
          /\ graph' = [graph EXCEPT ![p] = EmptyGraph]
       \/ /\ ~FoldRaises(all_triples[p])
          /\ graph' = [graph EXCEPT
                 ![p] = merge_triples(graph[p], all_triples[p])]
          /\ pc' = [pc EXCEPT ![p] = "save"]
          /\ lock' = lock
    /\ UNCHANGED <<todo, all_triples, src>>
    /\ UNCHANGED <<file, persisted, writer>>
    /\ UNCHANGED rvars
    /\ UNCHANGED <<dvars, task>>

\* Save, first half: write_text opens the file for writing, which truncates
\* it before any byte of the new document is in it.
SaveOpen(p) ==
    /\ pc[p] = "save"
    /\ file' = FilePartial
    /\ pc' = [pc EXCEPT ![p] = "write"]
    /\ UNCHANGED <<todo, all_triples, graph, src>>
    /\ UNCHANGED <<lock, persisted, writer>>
    /\ UNCHANGED rvars
    /\ UNCHANGED <<dvars, task>>

\* Save, second half: the document is written and the file closed; the with
\* block ends and releases the lock, and the call returns (its local graph
\* is gone).
SaveWrite(p) ==
    /\ pc[p] = "write"
    /\ \E data \in {node_link_data(graph[p])} :
          /\ file' = FileOk(data)
          /\ persisted' = data
    /\ writer' = p
    /\ lock' = NoHolder
    /\ pc' = [pc EXCEPT ![p] = "done"]
    /\ graph' = [graph EXCEPT ![p] = EmptyGraph]
    /\ UNCHANGED <<todo, all_triples, src>>
    /\ UNCHANGED rvars
    /\ UNCHANGED <<dvars, task>>

BuildStep(p) ==
    \/ Extract(p)
    \/ ExtractDone(p)
    \/ Acquire(p)
    \/ Load(p)
    \/ Fold(p)
    \/ SaveOpen(p)
    \/ SaveWrite(p)

Next == \E p \in Builders : BuildStep(p)

Spec == Init /\ [][Next]_vars


(***************************************************************************)
(* A chat turn with deep search: GraphRetriever(graph_path) and            *)
(* get_relevant_subgraph_text.  It never touches the lock.                 *)
(***************************************************************************)
\* A constructor that creates the graph file when there is none.
RConstruct_Creates ==
    /\ rpc = "idle"
    /\ rsaw' = file.st
    /\ rsnap' = persisted
    /\ IF file.st = "absent"
       THEN rgraph' = EmptyGraph /\ rpc' = "loaded"
       ELSE IF Parseable(file)
            THEN rgraph' = node_link_graph(file.data) /\ rpc' = "loaded"
            ELSE rgraph' = EmptyGraph /\ rpc' = "raised"
    /\ file' = IF file.st = "absent" THEN FileOk(node_link_data(EmptyGraph))
               ELSE file
    /\ UNCHANGED rout
    /\ UNCHANGED bvars
    /\ UNCHANGED <<dvars, task>>
    /\ UNCHANGED <<lock, persisted, writer>>

\* GraphRetriever.__init__: no try around the parse, so an unparseable file
\* raises out of the constructor.
RConstruct ==
    /\ rpc = "idle"
    /\ rsaw' = file.st
    /\ rsnap' = persisted
    /\ IF file.st = "absent"
       THEN rgraph' = EmptyGraph /\ rpc' = "loaded"
       ELSE IF Parseable(file)
            THEN rgraph' = node_link_graph(file.data) /\ rpc' = "loaded"
            ELSE rgraph' = EmptyGraph /\ rpc' = "raised"
    /\ UNCHANGED rout
    /\ UNCHANGED bvars
    /\ UNCHANGED <<dvars, task>>
    /\ UNCHANGED fvars

RQuery ==
    /\ rpc = "loaded"
    /\ \E q \in Queries, depth \in 1..MaxDepth :
          IF QueryRaises(q)
          THEN /\ rout' = [NoOutput EXCEPT !.query = q, !.depth = depth]
               /\ rpc' = "failed"
          ELSE /\ rpc' = "answered"
               /\ \E fs \in {found_nodes(rgraph, q)} :
                     IF fs = <<>>
                     THEN rout' = [NoOutput EXCEPT !.query = q,
                                                   !.depth = depth]
                     ELSE \E ns \in {subgraph_nodes(rgraph, fs, depth)} :
                          \E top \in TopChoices(ns) :
                             rout' = [empty |-> FALSE, query |-> q,
                                      depth |-> depth, found |-> fs,
                                      nodes |-> ns, top |-> top,
                                      edges |-> RenderedEdges(rgraph, top),
                                      chains |-> multi_hop_lines(rgraph, fs),
                                      keys |-> key_lines(rgraph, top)]
    /\ UNCHANGED <<rgraph, rsaw, rsnap>>
    /\ UNCHANGED bvars
    /\ UNCHANGED <<dvars, task>>
    /\ UNCHANGED fvars

\* The chat turn ends; the next one builds a new retriever.
RDone ==
    /\ rpc \in {"answered", "raised", "failed"}
    /\ rpc' = "idle"
    /\ rgraph' = EmptyGraph
    /\ rsaw' = "none"
    /\ rsnap' = NoData
    /\ rout' = NoOutput
    /\ UNCHANGED bvars
    /\ UNCHANGED <<dvars, task>>
    /\ UNCHANGED fvars

RetrStep == RConstruct \/ RQuery \/ RDone

\* RetrWriters background tasks call build_graph while chat turns run.
InitRetr ==
    /\ InitCommon
    /\ pc = [p \in Builders |-> IF p <= RetrWriters THEN "extract" ELSE "unused"]
    /\ \A p \in Builders : p > RetrWriters => todo[p] = 0
    /\ rpc = "idle"

NextRetr == (\E p \in Builders : BuildStep(p)) \/ RetrStep

SpecRetr == InitRetr /\ [][NextRetr]_vars

\* build_graph calls are scheduled fairly (each is a thread that keeps
\* running; FileLock polls until the lock is free).
InitFair == Init /\ todo \in ChunkLists(LiveChunks)

FairSpec ==
    /\ InitFair
    /\ [][Next]_vars
    /\ \A p \in Builders : WF_vars(BuildStep(p))

(***************************************************************************)
(* Chat turns over a graph file that no ingestion is changing.             *)
(***************************************************************************)
Tr(s, p, o) == Dict(FStr(s), FStr(p), FStr(o))

leads_to == <<"l", "e", "a", "d", "s", "_", "t", "o">>
causes == <<"c", "a", "u", "s", "e", "s">>

\* a-b (leads_to), b-c (causes)
TwoHop ==
    merge_triples(EmptyGraph,
        <<Tr(<<"a">>, leads_to, <<"b">>), Tr(<<"b">>, causes, <<"c">>)>>)

\* the chain a-b-c-d-e, a-b carrying two labels, and x-y apart from it
Chain ==
    merge_triples(TwoHop,
        <<Tr(<<"b">>, <<"r">>, <<"a">>), Tr(<<"c">>, <<"r">>, <<"d">>),
          Tr(<<"e">>, <<"s">>, <<"d">>), Tr(<<"x">>, <<"r">>, <<"y">>)>>)

LeafChars ==
    <<"1", "2", "3", "4", "5", "6", "7", "8", "9", "p", "q", "t", "u", "v",
      "w", "z">>

hubs == <<"h", "u", "b", "s">>

\* the node hubs with more than TopK neighbours, two of them linked to each
\* other, and the node q two hops from it
Star ==
    merge_triples(EmptyGraph,
        [i \in 1..Len(LeafChars) |->
            Tr(hubs, <<"r">>, <<"n", LeafChars[i]>>)]
        \o <<Tr(<<"n", "1">>, <<"s">>, <<"n", "2">>),
              Tr(<<"n", "1">>, <<"r">>, <<"q">>)>>)

QueryFiles ==
    {FileAbsent} \cup {FileOk(node_link_data(g)) : g \in {TwoHop, Chain, Star}}

InitQuery ==
    /\ DocOff
    /\ TaskOff
    /\ file \in QueryFiles
    /\ lock = NoHolder
    /\ pc = [p \in Builders |-> "unused"]
    /\ todo = [p \in Builders |-> 0]
    /\ all_triples = [p \in Builders |-> <<>>]
    /\ graph = [p \in Builders |-> EmptyGraph]
    /\ src = [p \in Builders |-> "none"]
    /\ persisted = file.data
    /\ writer = NoHolder
    /\ rpc = "idle"
    /\ rgraph = EmptyGraph
    /\ rsaw = "none"
    /\ rsnap = NoData
    /\ rout = NoOutput

NextQuery == RetrStep

SpecQuery == InitQuery /\ [][NextQuery]_vars

(***************************************************************************)
(* A source extractor and chunk_with_metadata, called on one document.     *)
(***************************************************************************)
ab == <<"a", "b">>
NL == <<"\n">>
Section1 == <<"S", "e", "c", "t", "i", "o", "n", " ", "1">>
Chapter2 == <<"c", "h", "a", "p", "t", "e", "r", " ", "2">>

\* "ab\nSection 1\nab\nchapter 2\nab\n\nab"
Book ==
    ab \o NL \o Section1 \o NL \o ab \o NL \o Chapter2 \o NL \o ab
       \o NL \o NL \o ab

\* the files handed to the extractors: their suffix, whether the parser
\* can read them, and their pages (pdf), paragraphs (docx) or text
Documents ==
    { [ext |-> "txt", readable |-> TRUE, content |-> <<Book>>],
      [ext |-> "txt", readable |-> TRUE,
       content |-> <<Section1 \o NL \o ab \o <<" ">> \o ab
                        \o NL \o NL \o NL \o NL \o ab \o NL \o NL>>],
      [ext |-> "txt", readable |-> TRUE, content |-> <<ab \o <<" ">> \o ab>>],
      [ext |-> "txt", readable |-> TRUE,
       content |-> <<<<" ">> \o NL \o NL \o <<" ">>>>],
      [ext |-> "txt", readable |-> FALSE, content |-> <<>>],
      [ext |-> "docx", readable |-> TRUE,
       content |-> <<ab, <<" ">>, Section1, ab \o NL \o NL \o ab>>],
      [ext |-> "docx", readable |-> FALSE, content |-> <<>>],
      [ext |-> "pdf", readable |-> TRUE,
       content |-> <<ab \o NL \o NL \o ab, <<>>,
                     Section1 \o NL \o ab \o NL \o NL \o <<" ">>
                         \o NL \o NL \o Chapter2>>],
      [ext |-> "pdf", readable |-> FALSE, content |-> <<>>] }

\* chunk_overlap values given to chunk_with_metadata (the splitter refuses
\* an overlap larger than chunk_size)
ChunkOverlaps == {0, 3, ChunkSize}

\* the offsets where the text passes from white space to other characters
\* or back, and its two ends
Cuts(t) ==
    {0, Len(t)} \cup {i \in 1..(Len(t) - 1) :
                         (t[i] \in Whitespace) # (t[i + 1] \in Whitespace)}

\* the stretches of text a chunk can be cut from
Windows(t, chunk_size) ==
    {w \in Cuts(t) \X Cuts(t) :
        /\ w[1] < w[2]
        /\ w[2] - w[1] <= chunk_size
        /\ Strip(Slice(t, w[1], w[2])) # <<>>}

\* up to n stretches, each starting after the one before and ending no
\* earlier
RECURSIVE WindowLists(_, _)
WindowLists(W, n) ==
    IF n = 0 THEN {<<>>}
    ELSE CHOOSE r \in
             {L \cup UNION {{Append(l, w) :
                               w \in {x \in W :
                                         l = <<>> \/ (/\ l[Len(l)][1] < x[1]
                                                      /\ l[Len(l)][2] <= x[2])}} :
                            l \in {y \in L : Len(y) = n - 1}} :
                 L \in {WindowLists(W, n - 1)}} : TRUE

\* RecursiveCharacterTextSplitter(chunk_size, chunk_overlap).split_text(t):
\* the library returns stretches of the text in text order, each stripped
\* of surrounding white space and none empty; which stretches is left open
split_text(t, chunk_size, n) ==
    {[k \in 1..Len(l) |-> Strip(Slice(t, l[k][1], l[k][2]))] :
        l \in {x \in WindowLists(Windows(t, chunk_size), n) :
                  x # <<>> \/ Strip(t) = <<>>}}

\* extract_text_from_pdf / _docx / _txt: any exception of the parser
\* becomes HTTPException(400).
DExtract ==
    /\ dpc = "start"
    /\ IF din.readable
       THEN /\ \E e \in {extract_text(din)} :
                  extracted' = [full_text |-> e.full_text,
                                source_map |-> e.source_map]
            /\ dpc' = "extracted"
       ELSE /\ dpc' = "rejected"
            /\ UNCHANGED extracted
    /\ UNCHANGED <<din, text, source_map, chunk_overlap, chapters, chunks,
                   annotated, last_pos, current_chapter_idx>>
    /\ UNCHANGED <<bvars, fvars, rvars, task>>

\* chunk_with_metadata up to its loop: called with the extracted text and
\* either the extracted spans or no spans.
DSplit ==
    /\ dpc = "extracted"
    /\ text' = extracted.full_text
    /\ \E sm \in {extracted.source_map, <<>>} : source_map' = sm
    /\ \E ov \in ChunkOverlaps : chunk_overlap' = ov
    /\ chapters' = detect_chapters(extracted.full_text)
    /\ \E cl \in split_text(extracted.full_text, ChunkSize, MaxSplits) :
          chunks' = cl
    /\ annotated' = <<>>
    /\ last_pos' = 0
    /\ current_chapter_idx' = 0
    /\ dpc' = "loop"
    /\ UNCHANGED <<din, extracted>>
    /\ UNCHANGED <<bvars, fvars, rvars, task>>

\* for i, c in enumerate(chunks): one iteration.
DAnnotate ==
    /\ dpc = "loop"
    /\ Len(annotated) < Len(chunks)
    /\ \E a \in {annotate(text, source_map, chapters,
                           chunks[Len(annotated) + 1], last_pos,
                           current_chapter_idx)} :
          /\ annotated' = Append(annotated, a)
          /\ last_pos' = IF a.metadata.end - chunk_overlap > 0
                         THEN a.metadata.end - chunk_overlap ELSE 0
          /\ current_chapter_idx' = a.chapter
    /\ UNCHANGED <<din, dpc, extracted, text, source_map, chunk_overlap,
                   chapters, chunks>>
    /\ UNCHANGED <<bvars, fvars, rvars, task>>

\* return annotated
DReturn ==
    /\ dpc = "loop"
    /\ Len(annotated) = Len(chunks)
    /\ dpc' = "returned"
    /\ UNCHANGED <<din, extracted, text, source_map, chunk_overlap, chapters,
                   chunks, annotated, last_pos, current_chapter_idx>>
    /\ UNCHANGED <<bvars, fvars, rvars, task>>

\* everything but the document calls is at rest
RestOff ==
    /\ file = FileAbsent
    /\ lock = NoHolder
    /\ pc = [p \in Builders |-> "unused"]
    /\ todo = [p \in Builders |-> 0]
    /\ all_triples = [p \in Builders |-> <<>>]
    /\ graph = [p \in Builders |-> EmptyGraph]
    /\ src = [p \in Builders |-> "none"]
    /\ persisted = file.data
    /\ writer = NoHolder
    /\ rpc = "off"
    /\ rgraph = EmptyGraph
    /\ rsaw = "none"
    /\ rsnap = NoData
    /\ rout = NoOutput

InitDoc ==
    /\ RestOff
    /\ TaskOff
    /\ din \in Documents
    /\ dpc = "start"
    /\ extracted = [full_text |-> <<>>, source_map |-> <<>>]
    /\ text = <<>>
    /\ source_map = <<>>
    /\ chunk_overlap = 0
    /\ chapters = <<>>
    /\ chunks = <<>>
    /\ annotated = <<>>
    /\ last_pos = 0
    /\ current_chapter_idx = 0

NextDoc == DExtract \/ DSplit \/ DAnnotate \/ DReturn

SpecDoc == InitDoc /\ [][NextDoc]_vars

(***************************************************************************)
(* main.py: uploads and their background ingestion tasks.                  *)
(***************************************************************************)
ChunkArgsPassed == 1      \* chunk_with_metadata(text)
ChunkArgsRequired == 2    \* def chunk_with_metadata(text, source_map, ...)

\* POST /upload: the file is stored under a fresh doc_id and
\* process_document_background is queued for it.
upload_document(d) ==
    /\ task[d].st = "none"
    /\ \E ext \in {"pdf", "docx", "txt"}, readable \in BOOLEAN :
          task' = [task EXCEPT
                      ![d] = [st |-> "queued", ext |-> ext,
                              readable |-> readable]]
    /\ UNCHANGED <<bvars, fvars, rvars, dvars>>

\* The background task.  1. Extract: the extractor raises HTTPException for
\* a file it cannot read.  2. Chunk: the call passes one argument (the pair
\* the extractor returned) to a function with two required parameters,
\* which is a TypeError before chunk_with_metadata runs; steps 3 (vector
\* index) and 4 (graph build) lie behind it and end the task as "done".
process_document_background(d) ==
    /\ task[d].st = "queued"
    /\ task' = [task EXCEPT
                    ![d].st = IF ~task[d].readable THEN "rejected"
                              ELSE IF ChunkArgsPassed < ChunkArgsRequired
                              THEN "raised"
                              ELSE "done"]
    /\ UNCHANGED <<bvars, fvars, rvars, dvars>>

InitIngest ==
    /\ RestOff
    /\ DocOff
    /\ TaskOff

NextIngest ==
    \E d \in Docs : upload_document(d) \/ process_document_background(d)

SpecIngest == InitIngest /\ [][NextIngest]_vars


(***************************************************************************)
(* Properties.                                                             *)
(***************************************************************************)
FileGraph == node_link_graph(file.data)

AllFinished == \A p \in Builders : pc[p] \in Finished

Items(p) == {all_triples[p][i] : i \in 1..Len(all_triples[p])}

\* a triple the merge loop accepts: three strings, none empty once trimmed
ValidItem(t) ==
    /\ ~ItemRaises(t)
    /\ Normalize(Get(t.subject)) # <<>>
    /\ Normalize(Get(t.object)) # <<>>
    /\ Normalize(Get(t.predicate)) # <<>>

Stored(g, t) ==
    LET subj == Normalize(Get(t.subject))
        obj == Normalize(Get(t.object))
        pred == Normalize(Get(t.predicate))
    IN  /\ HasNode(g, subj)
        /\ HasNode(g, obj)
        /\ HasEdge(g, subj, obj)
        /\ InSeq(pred, Relations(g, subj, obj))

IsPrefix(s, t) == Len(s) <= Len(t) /\ SubSeq(t, 1, Len(s)) = s

GraphContains(big, small) ==
    /\ NodeSet(small) \subseteq NodeSet(big)
    /\ EdgeSet(small) \subseteq EdgeSet(big)
    /\ \A e \in EdgeSet(small) :
          \A i \in 1..Len(small.rel[e]) : InSeq(small.rel[e][i], big.rel[e])

SameContent(g, h) ==
    /\ NodeSet(g) = NodeSet(h)
    /\ EdgeSet(g) = EdgeSet(h)
    /\ \A e \in EdgeSet(g) : g.rel[e] = h.rel[e]

\* C1: once all concurrent build_graph calls have finished, the graph file
\* holds the nodes, the edge and the relation label of every valid triple
\* that any of the calls extracted (no triple of any batch is lost).
C1_NoTripleLost ==
    AllFinished =>
        \A p \in Builders : \A t \in Items(p) :
            ValidItem(t) => Parseable(file) /\ Stored(FileGraph, t)

\* C2: at most one build_graph call at a time is between loading the graph
\* file and finishing its write, exactly the lock holder is there, the file
\* is only ever truncated by the lock holder, and a call that is still
\* querying the language model does not hold the lock.
C2_Linearized ==
    /\ \A p, q \in Builders :
          p # q => ~(pc[p] \in InCritical /\ pc[q] \in InCritical)
    /\ \A p \in Builders : (pc[p] \in InCritical) <=> (lock = p)
    /\ \A p \in Builders : pc[p] \in {"extract", "wait"} => lock # p
    /\ file.st = "partial" => \E p \in Builders : lock = p /\ pc[p] = "write"

\* one call is merging its triples inside the critical section while
\* another one still has chunks to send to the language model
C2_Witness ==
    \E p, q \in Builders :
        /\ p # q
        /\ pc[p] = "fold"
        /\ pc[q] = "extract" /\ todo[q] > 0
        /\ all_triples[p] # <<>>

\* C3: a build_graph call that has left the critical section, normally or
\* by an exception, no longer holds the lock, and under fair scheduling
\* every call waiting for the lock eventually holds it.
C3_LockReleased ==
    /\ [](\A p \in Builders : pc[p] \in Finished => lock # p)
    /\ \A p \in Builders : (pc[p] = "wait") ~> (lock = p)

\* a call raised inside the critical section and another call holds the
\* lock after it
C3_Witness ==
    \E p, q \in Builders :
        /\ p # q
        /\ pc[p] = "raised" /\ src[p] # "none"
        /\ lock = q

\* C4: whenever the graph file holds a complete document, that document
\* contains every node, every edge and every relation label of the last
\* complete document before it; the file is never removed, and a complete
\* document is only ever replaced through a write.
C4_AppendOnly ==
    /\ [](Parseable(file) => persisted = file.data)
    /\ [][/\ file.st # "absent" => file'.st # "absent"
          /\ Parseable(file) => file'.st \in {"ok", "partial"}
          /\ Parseable(file') =>
                 GraphContains(node_link_graph(file'.data),
                               node_link_graph(persisted))]_vars

\* a merge into an existing snapshot has completed and an edge carries two
\* relation labels
C4_Witness ==
    /\ Parseable(file)
    /\ \E p \in Builders : pc[p] = "done" /\ src[p] = "ok" /\ writer = p
    /\ \E e \in EdgeSet(FileGraph) : Len(FileGraph.rel[e]) >= 2

\* C5: whatever the language model returns, no exception escapes
\* build_graph: no call ever ends by raising, in the extraction loop or in
\* the merge.
C5_NeverAborts == \A p \in Builders : pc[p] # "raised"


\* C6: a retriever constructed while merges run never fails because a write
\* is in progress, and the graph it holds is the last complete document of
\* the file at the moment it loaded (the empty graph if there was no file).
C6_CompleteSnapshot ==
    /\ rpc = "raised" => rsaw # "partial"
    /\ rpc \in {"loaded", "answered"} =>
          /\ rsaw \in {"absent", "ok"}
          /\ SameContent(rgraph, node_link_graph(rsnap))

\* the outcome of one build_graph call with batch ts on an absent file
MergedOnce(ts) ==
    IF FoldRaises(ts) THEN FileAbsent
    ELSE FileOk(node_link_data(merge_triples(load_graph(FileAbsent), ts)))

AllMergedSame ==
    /\ AllFinished
    /\ \A p \in Builders : src[p] # "none" /\ all_triples[p] = all_triples[1]
    /\ \E p \in Builders : src[p] = "absent"

\* C7: when the file was absent and every build_graph call merged the same
\* triple list, the file ends with exactly the nodes, edges and per-edge
\* relation lists that a single merge of that list gives.
C7_Idempotent ==
    AllMergedSame =>
        /\ file.st = MergedOnce(all_triples[1]).st
        /\ SameContent(FileGraph,
                       node_link_graph(MergedOnce(all_triples[1]).data))

\* the same list, with two labels for one edge, was merged more than once
C7_Witness ==
    /\ AllMergedSame
    /\ Parseable(file)
    /\ \E e \in EdgeSet(FileGraph) : Len(FileGraph.rel[e]) >= 2

Trimmed(s) == s # <<>> /\ Strip(s) = s /\ Lower(s) = s

WellFormed(g) ==
    /\ \A n \in NodeSet(g) : Trimmed(n)
    /\ \A e \in EdgeSet(g) :
          /\ g.rel[e] # <<>>
          /\ NoDup(g.rel[e])
          /\ e \subseteq NodeSet(g)

\* item i of the batch of p, folded into the graph the items before it gave
StepOk(g0, ts, i) ==
    LET t == ts[i]
        subj == Normalize(Get(t.subject))
        obj == Normalize(Get(t.object))
        pred == Normalize(Get(t.predicate))
        g == merge_triples(g0, SubSeq(ts, 1, i - 1))
        h == merge_triple(g, t)
    IN  /\ (subj = <<>> \/ obj = <<>> \/ pred = <<>>) => h = g
        /\ (subj # <<>> /\ obj # <<>> /\ pred # <<>> /\ HasEdge(g, subj, obj)) =>
              /\ h.nodes = g.nodes
              /\ EdgeSet(h) = EdgeSet(g)
              /\ \A e \in EdgeSet(g) : e # {subj, obj} => h.rel[e] = g.rel[e]
              /\ h.rel[{subj, obj}] =
                    IF InSeq(pred, g.rel[{subj, obj}]) THEN g.rel[{subj, obj}]
                    ELSE Append(g.rel[{subj, obj}], pred)

\* C8: every complete graph file has only non-empty, trimmed, lower-case
\* nodes and non-empty duplicate-free relation lists; a merge keeps each
\* existing relation list as a prefix of the new one (labels stay in
\* first-insertion order); a triple with a field that is empty after
\* trimming changes nothing, and a triple between connected endpoints, in
\* either direction, only appends its label if the edge lacks it.
C8_Canonical ==
    /\ Parseable(file) => WellFormed(FileGraph)
    /\ \A p \in Builders :
          pc[p] = "save" =>
              /\ WellFormed(graph[p])
              /\ \A e \in EdgeSet(load_graph(file)) :
                    IsPrefix(load_graph(file).rel[e], graph[p].rel[e])
              /\ \A i \in 1..Len(all_triples[p]) :
                    StepOk(load_graph(file), all_triples[p], i)

\* a batch with an upper-case, padded triple in the reverse direction and a
\* blank triple was merged, and the edge a-b carries two labels
C8_Witness ==
    /\ Parseable(file)
    /\ \E p \in Builders :
          pc[p] = "done" /\ T_BA \in Items(p) /\ T_blank \in Items(p)
    /\ HasEdge(FileGraph, <<"a">>, <<"b">>)
    /\ Len(Relations(FileGraph, <<"a">>, <<"b">>)) = 2

\* C9: a build_graph call that finds the graph file unparseable or absent
\* does not fail: it never ends by raising, and when its write completes the
\* file holds exactly the graph of its own batch folded into the empty
\* graph; it no longer holds the lock afterwards.
C9_FreshStart ==
    \A p \in Builders :
        src[p] \in {"corrupt", "absent"} =>
            /\ pc[p] # "raised"
            /\ pc[p] = "fold" => graph[p] = EmptyGraph
            /\ (pc[p] = "done" /\ writer = p) =>
                  file = FileOk(node_link_data(
                             merge_triples(EmptyGraph, all_triples[p])))
            /\ pc[p] \in Finished => lock # p

\* C10: no step of a chat turn (constructing the retriever, answering a
\* query, ending) changes the graph file or the lock, and answering a query
\* leaves the loaded graph as it was.
C10_ReadOnly ==
    [][RetrStep =>
          /\ file' = file
          /\ lock' = lock
          /\ persisted' = persisted
          /\ rpc = "loaded" => rgraph' = rgraph]_vars

\* a query was answered from a non-empty graph, with rendered edges, while a
\* merge is inside its critical section
C10_Witness ==
    /\ rpc = "answered"
    /\ ~rout.empty
    /\ rout.edges # {}
    /\ \E p \in Builders : pc[p] \in InCritical

\* C11: a call of get_relevant_subgraph_text for which no resolved query
\* entity (the model's list, or the long query words when the model gives
\* none) is a node of the loaded graph returns "" and does not raise; this
\* includes the empty graph of an absent file.
C11_EmptyOrNothing ==
    (/\ rpc \in {"answered", "failed"}
     /\ \A i \in 1..Len(resolve_entities(rout.query)) :
            ~HasNode(rgraph, resolve_entities(rout.query)[i]))
        => rpc = "answered" /\ rout.empty

\* the walks of at most k nodes that start at u
RECURSIVE Walks(_, _, _)
Walks(g, u, k) ==
    IF k = 1 THEN {<<u>>}
    ELSE LET W == Walks(g, u, k - 1)
         IN  W \cup UNION {{Append(w, n) : n \in Neighbors(g, w[Len(w)])} :
                              w \in W}

\* the chain lines that lead from u to v over exactly n nodes
ChainsOf(g, u, v, n) ==
    {path_str(g, w) : w \in {x \in Walks(g, u, n) : Len(x) = n /\ x[n] = v}}

\* the chain lines between u and v, in either direction, of 2 to n nodes
AnyChain(g, u, v, n) ==
    UNION {ChainsOf(g, u, v, k) \cup ChainsOf(g, v, u, k) : k \in 2..n}

\* "a --[leads_to]--> b --[causes]--> c"
ExampleLine ==
    <<"a", " ", "-", "-", "[", "l", "e", "a", "d", "s", "_", "t", "o", "]", "-", "-", ">", " ">>
    \o <<"b", " ", "-", "-", "[", "c", "a", "u", "s", "e", "s", "]", "-", "-", ">", " ", "c">>

\* C12: in an answer, for every pair of distinct found entities u, v (u
\* before v) there is a chain line for the pair exactly if a path joins
\* them and the shortest one has at most 4 nodes; that line is a shortest
\* path from u to v, its nodes in order, joined by " --[labels]--> " with
\* the labels of each edge joined by "|".  Other pairs give no line.  For
\* a-b (leads_to), b-c (causes) and the entities a, c the only line is
\* "a --[leads_to]--> b --[causes]--> c".
C12_MultiHop ==
    (rpc = "answered" /\ ~rout.empty) =>
        /\ \A i, j \in 1..Len(rout.found) :
              (i < j /\ rout.found[i] # rout.found[j]) =>
                  LET u == rout.found[i]
                      v == rout.found[j]
                      lines == {rout.chains[k] : k \in 1..Len(rout.chains)}
                  IN  IF Connected(rgraph, u, v)
                         /\ Distance(rgraph, u, v) + 1 <= MaxPathNodes
                      THEN lines \cap ChainsOf(rgraph, u, v,
                                       Distance(rgraph, u, v) + 1) # {}
                      ELSE lines \cap AnyChain(rgraph, u, v,
                                       MaxPathNodes + 1) = {}
        /\ (rgraph = TwoHop /\ rout.found = <<<<"a">>, <<"c">>>>) =>
              rout.chains = <<ExampleLine>>

\* the entities a, d, e, x were found in the chain a-b-c-d-e with x apart:
\* a-d (4 nodes, one edge with two labels) and d-e gave a line, a-e
\* (5 nodes) and the pairs with x gave none
C12_Witness ==
    /\ rpc = "answered"
    /\ rgraph = Chain
    /\ rout.found = <<<<"a">>, <<"d">>, <<"e">>, <<"x">>>>
    /\ Len(rout.chains) = 2
    /\ \E k \in 1..Len(rout.chains) : InSeq("|", rout.chains[k])

\* the two ways an edge can appear as a key-concepts line
EdgeLines(g, e) ==
    {uv[1] \o Arrow(Join(g.rel[e], <<",", " ">>)) \o uv[2] :
        uv \in {x \in e \X e : e = {x[1], x[2]}}}

\* the nodes on a shortest path between u and v, when v is at most k hops
\* from u: those at most a hops from u and d - a from v, d the distance
Between(g, u, v, k) ==
    UNION {UNION {{n \in Within(g, u, a) : n \in Within(g, v, d - a)} :
                     a \in 0..d} :
           d \in {x \in 0..k : /\ v \in Within(g, u, x)
                                /\ \A c \in 0..(x - 1) :
                                      v \notin Within(g, u, c)}}

\* found entities, the nodes between the ends of a pair at most 3 hops
\* apart, and the nodes within depth hops of a found entity
WorkingBound(g, fs, depth) ==
    {fs[i] : i \in 1..Len(fs)}
        \cup UNION {Within(g, fs[i], depth) : i \in 1..Len(fs)}
        \cup UNION {Between(g, fs[ij[1]], fs[ij[2]], MaxPathNodes - 1) :
                       ij \in Pairs(fs)}

RECURSIVE PageParagraphs(_, _)
PageParagraphs(pages, i) ==
    IF i > Len(pages) THEN <<>>
    ELSE (IF Strip(pages[i]) = <<>> THEN <<>> ELSE split(pages[i]))
             \o PageParagraphs(pages, i + 1)

Paragraphs(doc) ==
    IF doc.ext = "pdf" THEN PageParagraphs(doc.content, 1)
    ELSE IF doc.ext = "docx" THEN doc.content
    ELSE split(doc.content[1])

Kept(doc) == SelectSeq(Paragraphs(doc), LAMBDA para : Strip(para) # <<>>)

\* C16: for an accepted document the spans (start, end, page, paragraph)
\* are one per non-blank paragraph, in order: start < end, page >= 1,
\* paragraph indices 0, 1, 2, ... (blank paragraphs take none), the first
\* span starts at 0, each next one 2 characters after the end of the one
\* before, those 2 characters being the blank line, the last one ends at
\* len(full_text), full_text[start:end] is the paragraph, and the
\* paragraphs joined by blank lines are full_text.
C16_Spans ==
    dpc \in {"extracted", "loop", "returned"} =>
        \A ft \in {extracted.full_text}, sm \in {extracted.source_map},
           kept \in {Kept(din)} :
            /\ Len(sm) = Len(kept)
            /\ \A k \in 1..Len(sm) :
                  /\ 0 <= sm[k][1] /\ sm[k][1] < sm[k][2]
                  /\ sm[k][2] <= Len(ft)
                  /\ sm[k][3] >= 1
                  /\ sm[k][4] = k - 1
                  /\ Slice(ft, sm[k][1], sm[k][2]) = kept[k]
                  /\ k > 1 =>
                        /\ sm[k][1] = sm[k - 1][2] + 2
                        /\ sm[k][1] > sm[k - 1][1]
                        /\ Slice(ft, sm[k - 1][2], sm[k][1]) = ParagraphBreak
            /\ sm # <<>> => sm[1][1] = 0 /\ sm[Len(sm)][2] = Len(ft)
            /\ ft = Join(kept, ParagraphBreak)

\* a pdf with an empty page and a blank paragraph gave spans on two
\* different pages
C16_Witness ==
    /\ dpc = "extracted"
    /\ din.ext = "pdf"
    /\ Len(Paragraphs(din)) > Len(Kept(din))
    /\ \E j, k \in 1..Len(extracted.source_map) :
          extracted.source_map[j][3] # extracted.source_map[k][3]

\* C13: every annotated chunk carries the title of the chapter with the
\* greatest start offset that is <= the chunk's start offset.
C13_ChapterOfChunk ==
    \A k \in 1..Len(annotated) :
        \E j \in 1..Len(chapters) :
            /\ chapters[j][1] <= annotated[k].metadata.start
            /\ \A i \in 1..Len(chapters) :
                  chapters[i][1] <= annotated[k].metadata.start
                      => chapters[i][1] <= chapters[j][1]
            /\ annotated[k].metadata.chapter_title = chapters[j][2]

\* C14: the title of every annotated chunk is that of the chapter the
\* pointer stood at, and from one chunk to the next the start offset of
\* that chapter never decreases.
C14_ChapterMonotonic ==
    /\ \A k \in 1..Len(annotated) :
          /\ annotated[k].chapter + 1 \in 1..Len(chapters)
          /\ annotated[k].metadata.chapter_title
                 = chapters[annotated[k].chapter + 1][2]
    /\ \A k \in 1..(Len(annotated) - 1) :
          chapters[annotated[k + 1].chapter + 1][1]
              >= chapters[annotated[k].chapter + 1][1]

\* a chunk was placed before the chunk in front of it, which lies in a
\* later chapter than the first
C14_Witness ==
    /\ Len(chapters) >= 2
    /\ \E k \in 1..(Len(annotated) - 1) :
          /\ annotated[k].chapter >= 1
          /\ annotated[k + 1].metadata.start
                 < chapters[annotated[k].chapter + 1][1]

\* the spans of source_map that the chunk with metadata m overlaps
Hit(m) ==
    {j \in 1..Len(source_map) :
        (IF m.start > source_map[j][1] THEN m.start ELSE source_map[j][1])
            < (IF m.end < source_map[j][2] THEN m.end ELSE source_map[j][2])}

\* label is the numbers of P (all below 10) in ascending order, ", "
\* between them
IsLabelOf(label, P) ==
    /\ Len(label) = 3 * Cardinality(P) - 2
    /\ \A q \in P :
          \E n \in {Cardinality({x \in P : x < q})} :
              /\ label[3 * n + 1] = DigitChars[q + 1]
              /\ n > 0 => label[3 * n - 1] = "," /\ label[3 * n] = " "

\* C15: for every annotated chunk, with the pages and paragraph indices of
\* the spans s with max(start, s.start) < min(end, s.end): page is the
\* least such page, paragraph_index the least such index, page_label the
\* pages in ascending order joined by ", "; without such a span they are
\* 1, 0 and "Unknown".
C15_Attribution ==
    \A k \in 1..Len(annotated) :
        \A m \in {annotated[k].metadata} :
        \A pages \in {{source_map[j][3] : j \in Hit(m)}},
           paragraphs \in {{source_map[j][4] : j \in Hit(m)}} :
            IF pages = {}
            THEN /\ m.page_label = Unknown
                 /\ m.page = 1
                 /\ m.paragraph_index = 0
            ELSE /\ m.page \in pages /\ \A q \in pages : m.page <= q
                 /\ m.paragraph_index \in paragraphs
                 /\ \A q \in paragraphs : m.paragraph_index <= q
                 /\ IsLabelOf(m.page_label, pages)

\* one chunk overlaps paragraphs of two pages, another chunk of the same
\* call none
C15_Witness ==
    /\ \E k \in 1..Len(annotated) :
          Cardinality({source_map[j][3] : j \in Hit(annotated[k].metadata)}) = 2
    /\ \E k \in 1..Len(annotated) :
          /\ Cardinality(Hit(annotated[k].metadata)) = 1
          /\ \E j \in Hit(annotated[k].metadata) : source_map[j][4] > 0

\* the offsets at which the string c occurs in text
Occurrences(c) ==
    {i \in 0..(Len(text) - Len(c)) : Slice(text, i, i + Len(c)) = c}

\* the lower bound for chunk k: the end of the chunk before it minus the
\* overlap, at least 0
LowerBound(k) ==
    IF k = 1 \/ annotated[k - 1].metadata.end - chunk_overlap < 0 THEN 0
    ELSE annotated[k - 1].metadata.end - chunk_overlap

\* C18: the start of every annotated chunk is the first occurrence of its
\* text at or after the lower bound, or the first occurrence anywhere if
\* there is none at or after the bound; so 0 <= start, end = start +
\* len(text of the chunk) <= len(text), and text[start:end] is the chunk.
C18_BoundaryRecovery ==
    \A k \in 1..Len(annotated) :
        \A m \in {annotated[k].metadata}, occ \in {Occurrences(chunks[k])} :
            /\ annotated[k].text = chunks[k]
            /\ m.start \in occ
            /\ IF \E i \in occ : i >= LowerBound(k)
               THEN /\ m.start >= LowerBound(k)
                    /\ \A i \in occ : i >= LowerBound(k) => m.start <= i
               ELSE \A i \in occ : m.start <= i
            /\ 0 <= m.start
            /\ m.end = m.start + Len(chunks[k])
            /\ m.end <= Len(text)
            /\ Slice(text, m.start, m.end) = chunks[k]

\* the second chunk was found at or after a positive lower bound, past an
\* earlier occurrence of the same string
C18_Witness ==
    /\ Len(annotated) = 2
    /\ LowerBound(2) > 0
    /\ annotated[2].metadata.start >= LowerBound(2)
    /\ \E i \in Occurrences(chunks[2]) : i < annotated[2].metadata.start

\* C17: the background task of an upload whose file is readable does not
\* end by an exception: it goes through extract, chunk, vector index and
\* graph build.
C17_IngestionCompletes ==
    \A d \in Docs : task[d].readable => task[d].st # "raised"


====
